---------------------------- MODULE Spec2Model ----------------------------
(***************************************************************************)
(* PPK2 recording analysis (script/ppk_record_analysis.py): rising-edge    *)
(* detection on two digital channels, greedy matching of TX and RX         *)
(* triggers, the markdown report, and the main pipeline that chains them.  *)
(*                                                                         *)
(* Timestamps and max_latency_ms are floats read from the recording; they  *)
(* are modelled as integers (a fixed time unit).  Python list positions    *)
(* are zero-based and kept zero-based here: position i of a Python list is *)
(* element i + 1 of the TLA+ sequence.                                     *)
(***************************************************************************)
EXTENDS Integers, Sequences, FiniteSets

\* ------------------------------------------------------------------ bounds
\* Longest TX trigger list drawn as a direct input of the matcher.
MaxTx == 3
\* Longest RX trigger list drawn as a direct input of the matcher.
MaxRx == 3
\* Timestamps are drawn from 0 .. MaxTime.
MaxTime == 2
\* max_latency_ms is drawn from 1 .. MaxLatency.
MaxLatency == 2
\* Longest channel recording handed directly to detect_rising_edges.
MaxSamples == 4
\* Longest recording (CSV data rows) read by main.
MaxRows == 3

Times == 0 .. MaxTime
Levels == {0, 1}

\* Sequences over S of length at most n.
SeqUpTo(S, n) == UNION {[1 .. k -> S] : k \in 0 .. n}

\* Python's None, and an optional value, as a sequence of length 0 or 1.
None == <<>>
Some(x) == <<x>>

\* ------------------------------------------------------------------ state
VARIABLES
    pc,               \* position of the program
    timestamps,       \* detect_rising_edges: argument
    channel_data,     \* detect_rising_edges: argument
    rising_edges,     \* detect_rising_edges: returned list (None before the call)
    csv_rows,         \* main: the valid data rows of the input file
    args_output,      \* main: args.output (None: print to stdout)
    tx_triggers,      \* rising edges of D0
    rx_triggers,      \* rising edges of D1
    max_latency_ms,   \* matcher argument / args.max_latency
    packet_num,       \* matcher: position of the outer loop
    measurements,     \* matcher: list of LatencyMeasurement
    used_rx_indices,  \* matcher: set of consumed RX positions
    warnings,         \* matcher: packet numbers of the "No matching RX" warnings
    markdown_table,   \* result of generate_markdown_table (None before the call)
    written,          \* what reached stdout or the output file (None: nothing)
    error             \* the error printed before sys.exit(1) ("" if none)

vars == <<pc, timestamps, channel_data, rising_edges, csv_rows, args_output,
          tx_triggers, rx_triggers, max_latency_ms, packet_num, measurements,
          used_rx_indices, warnings, markdown_table, written, error>>

\* ------------------------------------------------------- detect_rising_edges
\* The condition of a falling edge (1 -> 0), in place of the rising one.
IsFallingEdge(prev_value, value) == prev_value = 1 /\ value = 0

\* The test of the loop body: a 0 -> 1 transition.
IsRisingEdge(prev_value, value) == prev_value = 0 /\ value = 1

MinOf(a, b) == IF a <= b THEN a ELSE b

\* The loop over zip(timestamps, channel_data), from position i on.
RECURSIVE EdgeLoop(_, _, _, _, _)
EdgeLoop(ts, data, i, prev_value, edges) ==
    IF i >= MinOf(Len(ts), Len(data)) THEN edges
    ELSE LET timestamp == ts[i + 1]
             value == data[i + 1]
         IN  EdgeLoop(ts, data, i + 1, value,
                      IF IsRisingEdge(prev_value, value)
                      THEN Append(edges, timestamp)
                      ELSE edges)

\* prev_value initialised to 1: a channel that starts high shows no edge.
detect_rising_edges_prev_high(ts, data) == EdgeLoop(ts, data, 0, 1, <<>>)

\* prev_value is initialised to 0 before the first sample.
detect_rising_edges(ts, data) == EdgeLoop(ts, data, 0, 0, <<>>)

\* ------------------------------------------------------- LatencyMeasurement
LatencyMeasurement(num, tx_time, rx_time) ==
    [packet_num |-> num, tx_time |-> tx_time, rx_time |-> rx_time,
     latency |-> rx_time - tx_time]

\* --------------------------------------- match_triggers_and_calculate_latency
\* float('inf') is the absent latency None; a found latency l is Some(l).
NoBest == [best_match |-> None, best_latency |-> None, best_idx |-> -1]

\* The consumed-set test ignored: every RX trigger stays available.
IsUsedNever(i, used) == FALSE

\* "if i in used_rx_indices: continue"
IsUsed(i, used) == i \in used

\* "<" in place of "<=": an RX trigger at the TX time itself is accepted.
NotAfterStrict(rx_time, tx_time) == rx_time < tx_time

\* "if rx_time <= tx_time: continue"
NotAfter(rx_time, tx_time) == rx_time <= tx_time

\* "if latency > max_latency_ms: continue"
TooHigh(latency, max_latency) == latency > max_latency

\* "<=" in place of "<": the last of several equal minima wins.
CloserOrEqual(latency, best_latency) ==
    best_latency = None \/ latency <= best_latency[1]

\* ">" in place of "<": the farthest valid RX trigger wins.
Farther(latency, best_latency) ==
    best_latency = None \/ latency > best_latency[1]

\* "if latency < best_latency", best_latency starting at float('inf')
Closer(latency, best_latency) ==
    best_latency = None \/ latency < best_latency[1]

\* The inner loop over enumerate(rx_triggers), from position i on.
RECURSIVE ScanRx(_, _, _, _, _, _)
ScanRx(rx, used, tx_time, max_latency, i, best) ==
    IF i >= Len(rx) THEN best
    ELSE LET rx_time == rx[i + 1]
             latency == rx_time - tx_time
         IN  IF IsUsed(i, used)
             THEN ScanRx(rx, used, tx_time, max_latency, i + 1, best)
             ELSE IF NotAfter(rx_time, tx_time)
             THEN ScanRx(rx, used, tx_time, max_latency, i + 1, best)
             ELSE IF TooHigh(latency, max_latency)
             THEN ScanRx(rx, used, tx_time, max_latency, i + 1, best)
             ELSE IF Closer(latency, best.best_latency)
             THEN ScanRx(rx, used, tx_time, max_latency, i + 1,
                         [best_match |-> Some(rx_time),
                          best_latency |-> Some(latency),
                          best_idx |-> i])
             ELSE ScanRx(rx, used, tx_time, max_latency, i + 1, best)

\* Entry of the matcher: empty result list and consumed set.
MatchEnter ==
    /\ packet_num' = 0
    /\ measurements' = <<>>
    /\ used_rx_indices' = {}
    /\ warnings' = <<>>

\* The loop stops after the first TX trigger that finds no RX trigger.
MatchSendStopEarly ==
    /\ pc = "match"
    /\ packet_num < Len(tx_triggers)
    /\ LET tx_time == tx_triggers[packet_num + 1]
           best == ScanRx(rx_triggers, used_rx_indices, tx_time,
                          max_latency_ms, 0, NoBest)
       IN  IF best.best_match # None
           THEN /\ measurements' = Append(measurements,
                        LatencyMeasurement(packet_num, tx_time, best.best_match[1]))
                /\ used_rx_indices' = used_rx_indices \cup {best.best_idx}
                /\ packet_num' = packet_num + 1
                /\ UNCHANGED warnings
           ELSE /\ warnings' = Append(warnings, packet_num)
                /\ packet_num' = Len(tx_triggers)
                /\ UNCHANGED <<measurements, used_rx_indices>>
    /\ UNCHANGED <<pc, timestamps, channel_data, rising_edges, csv_rows,
                   args_output, tx_triggers, rx_triggers, max_latency_ms,
                   markdown_table, written, error>>

\* One iteration of the outer loop: the TX trigger at position packet_num.
MatchSend ==
    /\ pc = "match"
    /\ packet_num < Len(tx_triggers)
    /\ LET tx_time == tx_triggers[packet_num + 1]
           best == ScanRx(rx_triggers, used_rx_indices, tx_time,
                          max_latency_ms, 0, NoBest)
       IN  IF best.best_match # None
           THEN /\ measurements' = Append(measurements,
                        LatencyMeasurement(packet_num, tx_time, best.best_match[1]))
                /\ used_rx_indices' = used_rx_indices \cup {best.best_idx}
                /\ UNCHANGED warnings
           ELSE /\ warnings' = Append(warnings, packet_num)
                /\ UNCHANGED <<measurements, used_rx_indices>>
    /\ packet_num' = packet_num + 1
    /\ UNCHANGED <<pc, timestamps, channel_data, rising_edges, csv_rows,
                   args_output, tx_triggers, rx_triggers, max_latency_ms,
                   markdown_table, written, error>>

\* The outer loop is exhausted: "return measurements".
MatchReturn ==
    /\ pc = "match"
    /\ packet_num = Len(tx_triggers)
    /\ pc' = "matched"
    /\ UNCHANGED <<timestamps, channel_data, rising_edges, csv_rows,
                   args_output, tx_triggers, rx_triggers, max_latency_ms,
                   packet_num, measurements, used_rx_indices, warnings,
                   markdown_table, written, error>>

\* --------------------------------------------------- generate_markdown_table
RECURSIVE SumSeq(_)
SumSeq(s) == IF s = <<>> THEN 0 ELSE s[1] + SumSeq(Tail(s))

SeqRange(s) == {s[k] : k \in 1 .. Len(s)}

\* Python's min() and max() of a non-empty list.
PyMin(s) == CHOOSE x \in SeqRange(s) : \A y \in SeqRange(s) : x <= y
PyMax(s) == CHOOSE x \in SeqRange(s) : \A y \in SeqRange(s) : x >= y

RECURSIVE Pow10(_)
Pow10(d) == IF d = 0 THEN 1 ELSE 10 * Pow10(d - 1)

\* f"{x:.<d>f}" of the non-negative quotient num / den: the nearest multiple
\* of 10^-d, as a count of such units.  Ties (which Python rounds to even on
\* the binary value) do not occur for a denominator below 8.
FormatFixed(num, den, d) == (2 * num * Pow10(d) + den) \div (2 * den)

\* The data rows without the first measurement.
DataRowsSkipFirst(ms) ==
    [k \in 1 .. Len(ms) - 1 |->
        <<ms[k + 1].packet_num, FormatFixed(ms[k + 1].tx_time, 1, 2),
          FormatFixed(ms[k + 1].rx_time, 1, 2), FormatFixed(ms[k + 1].latency, 1, 2)>>]

\* "for measurement in measurements": one table row each.
DataRows(ms) ==
    [k \in 1 .. Len(ms) |->
        <<ms[k].packet_num, FormatFixed(ms[k].tx_time, 1, 2),
          FormatFixed(ms[k].rx_time, 1, 2), FormatFixed(ms[k].latency, 1, 2)>>]

\* The report returned for an empty list.
NoMeasurements ==
    [title |-> "No measurements available.", total_packets |-> None,
     avg_latency |-> None, min_latency |-> None, max_latency |-> None,
     summary |-> <<>>, rows |-> <<>>, footer |-> <<>>]

\* avg_latency is the quotient sum(latencies) / len(latencies), kept as the
\* pair <<numerator, denominator>>; min_latency and max_latency are the
\* computed statistics; summary, rows and footer hold the formatted numbers
\* of the text (3 decimals in the summary, 2 elsewhere).
generate_markdown_table(ms) ==
    IF ms = <<>> THEN NoMeasurements
    ELSE LET latencies == [k \in 1 .. Len(ms) |-> ms[k].latency]
             sum == SumSeq(latencies)
             n == Len(latencies)
             min_latency == PyMin(latencies)
             max_latency == PyMax(latencies)
         IN  [title |-> "## UDP Latency Analysis Results",
              total_packets |-> Some(Len(ms)),
              avg_latency |-> Some(<<sum, n>>),
              min_latency |-> Some(min_latency),
              max_latency |-> Some(max_latency),
              summary |-> <<FormatFixed(sum, n, 3),
                            FormatFixed(min_latency, 1, 3),
                            FormatFixed(max_latency, 1, 3)>>,
              rows |-> DataRows(ms),
              footer |-> <<FormatFixed(sum, n, 2),
                           FormatFixed(min_latency, 1, 2),
                           FormatFixed(max_latency, 1, 2)>>]

\* The report builder applied to the list the matcher returned.
Generate ==
    /\ pc = "generate"
    /\ markdown_table' = Some(generate_markdown_table(measurements))
    /\ pc' = "output"
    /\ UNCHANGED <<timestamps, channel_data, rising_edges, csv_rows,
                   args_output, tx_triggers, rx_triggers, max_latency_ms,
                   packet_num, measurements, used_rx_indices, warnings,
                   written, error>>

\* The report builder called directly on the list the matcher returned.
ReportCall ==
    /\ pc = "matched"
    /\ markdown_table' = Some(generate_markdown_table(measurements))
    /\ pc' = "reported"
    /\ UNCHANGED <<timestamps, channel_data, rising_edges, csv_rows,
                   args_output, tx_triggers, rx_triggers, max_latency_ms,
                   packet_num, measurements, used_rx_indices, warnings,
                   written, error>>

\* ---------------------------------------------------------------------- main
\* The messages printed before sys.exit(1).
ErrRead == "Error reading CSV file"
ErrNoTx == "Error: No TX triggers found in the data"
ErrNoRx == "Error: No RX triggers found in the data"
ErrNoPairs == "Error: No valid latency measurements could be calculated"
ErrWrite == "Error writing output file"

Column(rows, c) == [k \in 1 .. Len(rows) |-> rows[k][c]]

\* parse_csv_file: the columns of the valid rows (rows that fail float() or
\* int() are skipped by the reader and are not part of csv_rows), then the
\* rising edges of D0 and D1.
ParseCsv ==
    /\ pc = "parse"
    /\ LET ts == Column(csv_rows, 1)
           d0_data == Column(csv_rows, 2)
           d1_data == Column(csv_rows, 3)
       IN  /\ tx_triggers' = detect_rising_edges(ts, d0_data)
           /\ rx_triggers' = detect_rising_edges(ts, d1_data)
    /\ pc' = "check_tx"
    /\ UNCHANGED <<timestamps, channel_data, rising_edges, csv_rows,
                   args_output, max_latency_ms, packet_num, measurements,
                   used_rx_indices, warnings, markdown_table, written, error>>

\* parse_csv_file: the file is missing, unreadable or lacks a column.
ParseCsvError ==
    /\ pc = "parse"
    /\ error' = ErrRead
    /\ pc' = "exit"
    /\ UNCHANGED <<timestamps, channel_data, rising_edges, csv_rows,
                   args_output, tx_triggers, rx_triggers, max_latency_ms,
                   packet_num, measurements, used_rx_indices, warnings,
                   markdown_table, written>>

\* "if not tx_triggers"
CheckTx ==
    /\ pc = "check_tx"
    /\ IF tx_triggers = <<>>
       THEN /\ error' = ErrNoTx
            /\ pc' = "exit"
       ELSE /\ pc' = "check_rx"
            /\ UNCHANGED error
    /\ UNCHANGED <<timestamps, channel_data, rising_edges, csv_rows,
                   args_output, tx_triggers, rx_triggers, max_latency_ms,
                   packet_num, measurements, used_rx_indices, warnings,
                   markdown_table, written>>

\* The RX check left out: the matcher is called whatever rx_triggers holds.
CheckRxOmitted ==
    /\ pc = "check_rx"
    /\ pc' = "match"
    /\ MatchEnter
    /\ UNCHANGED <<timestamps, channel_data, rising_edges, csv_rows,
                   args_output, tx_triggers, rx_triggers, max_latency_ms,
                   markdown_table, written, error>>

\* "if not rx_triggers", then the call of the matcher.
CheckRx ==
    /\ pc = "check_rx"
    /\ IF rx_triggers = <<>>
       THEN /\ error' = ErrNoRx
            /\ pc' = "exit"
            /\ UNCHANGED <<packet_num, measurements, used_rx_indices, warnings>>
       ELSE /\ pc' = "match"
            /\ MatchEnter
            /\ UNCHANGED error
    /\ UNCHANGED <<timestamps, channel_data, rising_edges, csv_rows,
                   args_output, tx_triggers, rx_triggers, max_latency_ms,
                   markdown_table, written>>

\* The check left out: the report is built whatever the matcher returned.
CheckMeasurementsOmitted ==
    /\ pc = "matched"
    /\ pc' = "generate"
    /\ UNCHANGED <<timestamps, channel_data, rising_edges, csv_rows,
                   args_output, tx_triggers, rx_triggers, max_latency_ms,
                   packet_num, measurements, used_rx_indices, warnings,
                   markdown_table, written, error>>

\* "if not measurements"
CheckMeasurements ==
    /\ pc = "matched"
    /\ IF measurements = <<>>
       THEN /\ error' = ErrNoPairs
            /\ pc' = "exit"
       ELSE /\ pc' = "generate"
            /\ UNCHANGED error
    /\ UNCHANGED <<timestamps, channel_data, rising_edges, csv_rows,
                   args_output, tx_triggers, rx_triggers, max_latency_ms,
                   packet_num, measurements, used_rx_indices, warnings,
                   markdown_table, written>>

\* What an output file holds after open() succeeded and write() failed.
Truncated ==
    [title |-> "", total_packets |-> None, avg_latency |-> None,
     min_latency |-> None, max_latency |-> None,
     summary |-> <<>>, rows |-> <<>>, footer |-> <<>>]

\* No --output: the table is printed.
OutputStdout ==
    /\ pc = "output"
    /\ args_output = None
    /\ written' = markdown_table
    /\ pc' = "done"
    /\ UNCHANGED <<timestamps, channel_data, rising_edges, csv_rows,
                   args_output, tx_triggers, rx_triggers, max_latency_ms,
                   packet_num, measurements, used_rx_indices, warnings,
                   markdown_table, error>>

\* --output FILE: the table is written to the file.
OutputFile ==
    /\ pc = "output"
    /\ args_output # None
    /\ written' = markdown_table
    /\ pc' = "done"
    /\ UNCHANGED <<timestamps, channel_data, rising_edges, csv_rows,
                   args_output, tx_triggers, rx_triggers, max_latency_ms,
                   packet_num, measurements, used_rx_indices, warnings,
                   markdown_table, error>>

\* --output FILE: open() or write() raises; the file is absent or truncated.
OutputFileError ==
    /\ pc = "output"
    /\ args_output # None
    /\ written' \in {None, Some(Truncated)}
    /\ error' = ErrWrite
    /\ pc' = "exit"
    /\ UNCHANGED <<timestamps, channel_data, rising_edges, csv_rows,
                   args_output, tx_triggers, rx_triggers, max_latency_ms,
                   packet_num, measurements, used_rx_indices, warnings,
                   markdown_table>>

\* ------------------------------------------------------------ specifications
\* The inputs of the worked examples: TX, RX, max_latency_ms.
ExampleRuns ==
    { <<(<<0, 10>>), (<<2, 12>>), 100>>,
      <<(<<0>>), (<<50>>), 10>>,
      <<(<<5, 0>>), (<<6, 7>>), 6>> }

MatcherInputs ==
    (SeqUpTo(Times, MaxTx) \X SeqUpTo(Times, MaxRx) \X (1 .. MaxLatency))
        \cup ExampleRuns

\* The worked example of the edge detector: timestamps, levels.
ExampleChannels ==
    { <<(<<0, 1, 2, 3, 4, 5>>), (<<0, 0, 1, 1, 0, 1>>)>> }

ChannelInputs ==
    UNION {[1 .. n -> Times] \X [1 .. n -> Levels] : n \in 0 .. MaxSamples}
        \cup ExampleChannels

\* A recording whose edges are TX [0] and RX [50], read with --max-latency 10.
ExampleRecordings ==
    { <<(<< <<0, 1, 0>>, <<50, 0, 1>> >>), 10>> }

RecordingInputs ==
    (SeqUpTo(Times \X Levels \X Levels, MaxRows) \X (1 .. MaxLatency))
        \cup ExampleRecordings

\* main: a recording of at most MaxRows rows <<Timestamp(ms), D0, D1>>.
InitMain ==
    /\ pc = "parse"
    /\ \E in \in RecordingInputs :
          /\ csv_rows = in[1]
          /\ max_latency_ms = in[2]
    /\ args_output \in {None, Some("file")}
    /\ timestamps = <<>>
    /\ channel_data = <<>>
    /\ rising_edges = None
    /\ tx_triggers = <<>>
    /\ rx_triggers = <<>>
    /\ packet_num = 0
    /\ measurements = <<>>
    /\ used_rx_indices = {}
    /\ warnings = <<>>
    /\ markdown_table = None
    /\ written = None
    /\ error = ""

NextMain ==
    \/ ParseCsv
    \/ ParseCsvError
    \/ CheckTx
    \/ CheckRx
    \/ MatchSend
    \/ MatchReturn
    \/ CheckMeasurements
    \/ Generate
    \/ OutputStdout
    \/ OutputFile
    \/ OutputFileError

\* The whole program.
Spec == InitMain /\ [][NextMain]_vars

\* The matcher called on any two trigger lists, then the report builder
\* called on its result.
InitCore ==
    /\ pc = "match"
    /\ \E in \in MatcherInputs :
          /\ tx_triggers = in[1]
          /\ rx_triggers = in[2]
          /\ max_latency_ms = in[3]
    /\ csv_rows = <<>>
    /\ args_output = None
    /\ timestamps = <<>>
    /\ channel_data = <<>>
    /\ rising_edges = None
    /\ packet_num = 0
    /\ measurements = <<>>
    /\ used_rx_indices = {}
    /\ warnings = <<>>
    /\ markdown_table = None
    /\ written = None
    /\ error = ""

NextCore ==
    \/ MatchSend
    \/ MatchReturn
    \/ ReportCall

SpecCore == InitCore /\ [][NextCore]_vars

\* detect_rising_edges called on any channel recording.
DetectCall ==
    /\ pc = "detect"
    /\ rising_edges' = Some(detect_rising_edges(timestamps, channel_data))
    /\ pc' = "detected"
    /\ UNCHANGED <<timestamps, channel_data, csv_rows, args_output,
                   tx_triggers, rx_triggers, max_latency_ms, packet_num,
                   measurements, used_rx_indices, warnings, markdown_table,
                   written, error>>

InitEdge ==
    /\ pc = "detect"
    /\ \E in \in ChannelInputs :
          /\ timestamps = in[1]
          /\ channel_data = in[2]
    /\ rising_edges = None
    /\ csv_rows = <<>>
    /\ args_output = None
    /\ tx_triggers = <<>>
    /\ rx_triggers = <<>>
    /\ max_latency_ms = 1
    /\ packet_num = 0
    /\ measurements = <<>>
    /\ used_rx_indices = {}
    /\ warnings = <<>>
    /\ markdown_table = None
    /\ written = None
    /\ error = ""

NextEdge == DetectCall

SpecEdge == InitEdge /\ [][NextEdge]_vars

\* ------------------------------------------------------------ edge detector
\* Positions (one-based) of the samples at level 1 whose preceding sample is
\* at level 0, the first sample having no preceding sample.
InteriorRises(data) ==
    {k \in 2 .. Len(data) : data[k - 1] = 0 /\ data[k] = 1}

\* The same, the first sample being preceded by an implicit level 0.
Rises(data) ==
    InteriorRises(data) \cup {k \in 1 .. MinOf(1, Len(data)) : data[k] = 1}

\* The maximal runs of 1s, as pairs <<first position, last position>>.
RunsOfOnes(data) ==
    {r \in (1 .. Len(data)) \X (1 .. Len(data)) :
        /\ r[1] <= r[2]
        /\ \A k \in r[1] .. r[2] : data[k] = 1
        /\ (r[1] = 1 \/ data[r[1] - 1] = 0)
        /\ (r[2] = Len(data) \/ data[r[2] + 1] = 0)}

\* The j-th smallest element of a finite set of integers.
Nth(S, j) == CHOOSE x \in S : Cardinality({y \in S : y <= x}) = j

Detected == pc = "detected"

\* C4, as stated: when the channel starts at level 1 the first sample is not
\* counted as an edge, so only the 0 -> 1 transitions inside the recording
\* are emitted.
C4_FirstSampleNotCounted ==
    (Detected /\ channel_data # <<>> /\ channel_data[1] = 1)
        => Len(rising_edges[1]) = Cardinality(InteriorRises(channel_data))

\* C4, amended: when the channel starts at level 1 the first sample is
\* counted as an edge: its timestamp is the first one emitted, ahead of the
\* 0 -> 1 transitions inside the recording, and levels [1,1,1] give exactly
\* one edge.
C4_FirstSampleCounted ==
    (Detected /\ channel_data # <<>> /\ channel_data[1] = 1)
        => /\ rising_edges[1] # <<>>
           /\ rising_edges[1][1] = timestamps[1]
           /\ Len(rising_edges[1]) = Cardinality(InteriorRises(channel_data)) + 1
           /\ (channel_data = <<1, 1, 1>> => Len(rising_edges[1]) = 1)

C4_Witness ==
    /\ Detected
    /\ channel_data = <<1, 1, 1>>
    /\ rising_edges[1] = <<timestamps[1]>>

\* C5: the edges are, in input order, exactly the timestamps of the samples
\* at level 1 whose preceding sample (an implicit 0 before the first) is at
\* level 0; their number is the number of maximal runs of 1s; levels
\* [0,0,1,1,0,1] at timestamps [0..5] give [2,5]; all-0 gives no edge.
C5_EdgesAreRises ==
    Detected =>
        LET edges == rising_edges[1]
            R == Rises(channel_data)
        IN  /\ Len(edges) = Cardinality(R)
            /\ \A j \in 1 .. Len(edges) : edges[j] = timestamps[Nth(R, j)]
            /\ Len(edges) = Cardinality(RunsOfOnes(channel_data))
            /\ ((\A k \in 1 .. Len(channel_data) : channel_data[k] = 0)
                    => edges = <<>>)
            /\ ((timestamps = <<0, 1, 2, 3, 4, 5>>
                 /\ channel_data = <<0, 0, 1, 1, 0, 1>>) => edges = <<2, 5>>)

C5_Witness ==
    /\ Detected
    /\ timestamps = <<0, 1, 2, 3, 4, 5>>
    /\ channel_data = <<0, 0, 1, 1, 0, 1>>
    /\ rising_edges[1] = <<2, 5>>

\* ------------------------------------------------------------------ matcher
RxPositions == 0 .. Len(rx_triggers) - 1

\* The RX positions that qualify for the TX trigger at position k when the
\* positions in used are consumed: later than the TX trigger and within
\* max_latency_ms of it.
Eligible(k, used) ==
    {i \in RxPositions \ used :
        /\ rx_triggers[i + 1] > tx_triggers[k + 1]
        /\ rx_triggers[i + 1] - tx_triggers[k + 1] <= max_latency_ms}

\* The matcher is about to process a TX trigger.
AtSend == pc = "match" /\ packet_num < Len(tx_triggers)

\* The matcher has returned.
Returned == pc \in {"matched", "reported"}

Last(s) == s[Len(s)]

\* C1: every emitted measurement has receive_time > send_time and
\* 0 < latency <= max_latency, with latency = rx_time - tx_time.
C1_CausalityAndBound ==
    \A k \in 1 .. Len(measurements) :
        LET m == measurements[k]
        IN  /\ m.rx_time > m.tx_time
            /\ m.latency = m.rx_time - m.tx_time
            /\ 0 < m.latency
            /\ m.latency <= max_latency_ms

\* A run that met both edges of the constraints: a measurement at exactly
\* max_latency_ms, and an RX trigger at the very time of a TX trigger that
\* was left unconsumed.
C1_Witness ==
    /\ Returned
    /\ \E k \in 1 .. Len(measurements) : measurements[k].latency = max_latency_ms
    /\ \E i \in RxPositions \ used_rx_indices :
          \E k \in 1 .. Len(tx_triggers) : rx_triggers[i + 1] = tx_triggers[k]

\* Consumption is monotonic and a consumed position is never selected again:
\* each step keeps every consumed position, and a step that emits a
\* measurement consumes exactly one position that was not consumed, the one
\* whose timestamp the measurement carries.
ConsumptionStep ==
    /\ used_rx_indices \subseteq used_rx_indices'
    /\ (measurements' # measurements =>
          \E i \in RxPositions \ used_rx_indices :
              /\ used_rx_indices' = used_rx_indices \cup {i}
              /\ measurements' = Append(measurements, Last(measurements'))
              /\ Last(measurements').rx_time = rx_triggers[i + 1])
    /\ (measurements' = measurements => used_rx_indices' = used_rx_indices)

NoSharedReceiveTime ==
    \A j, k \in 1 .. Len(measurements) :
        j # k => measurements[j].rx_time # measurements[k].rx_time

\* C2, as stated: consumption is monotonic and one-to-one, and no two
\* measurements share the same receive_time.
C2_NoSharedReceiveTime ==
    [][ConsumptionStep]_vars /\ []NoSharedReceiveTime

\* For every timestamp, as many measurements carry it as consumed RX
\* positions hold it.
OnePositionPerMeasurement ==
    /\ used_rx_indices \subseteq RxPositions
    /\ Cardinality(used_rx_indices) = Len(measurements)
    /\ \A t \in SeqRange(rx_triggers) :
          Cardinality({k \in 1 .. Len(measurements) : measurements[k].rx_time = t})
              = Cardinality({i \in used_rx_indices : rx_triggers[i + 1] = t})
    /\ \A k \in 1 .. Len(measurements) :
          measurements[k].rx_time \in SeqRange(rx_triggers)

RxDistinct ==
    \A i, j \in 1 .. Len(rx_triggers) : i # j => rx_triggers[i] # rx_triggers[j]

\* C2, amended: consumption is monotonic and one-to-one by position: no two
\* measurements are paired with the same RX position.  Two measurements
\* share a receive_time only if the RX list holds that timestamp at two
\* positions; receive_times are pairwise distinct when the RX timestamps are.
C2_OneToOneByPosition ==
    /\ [][ConsumptionStep]_vars
    /\ [](OnePositionPerMeasurement /\ (RxDistinct => NoSharedReceiveTime))

\* A second TX trigger was paired with a farther RX trigger because the
\* nearer one was consumed.
C2_Witness ==
    /\ Returned
    /\ Len(measurements) >= 2
    /\ \E i \in used_rx_indices :
          /\ rx_triggers[i + 1] > measurements[2].tx_time
          /\ rx_triggers[i + 1] < measurements[2].rx_time

\* The latency of RX position i for the TX trigger at position k.
LatencyOf(i, k) == rx_triggers[i + 1] - tx_triggers[k + 1]

\* A step of the matcher on a TX trigger that has an eligible RX position
\* consumes the eligible position of least latency, the lowest such position
\* when several have that latency.
NearestStep ==
    (AtSend /\ Eligible(packet_num, used_rx_indices) # {}) =>
        \E i \in Eligible(packet_num, used_rx_indices) :
            /\ \A j \in Eligible(packet_num, used_rx_indices) :
                  /\ LatencyOf(i, packet_num) <= LatencyOf(j, packet_num)
                  /\ (LatencyOf(j, packet_num) = LatencyOf(i, packet_num) => i <= j)
            /\ used_rx_indices' = used_rx_indices \cup {i}
            /\ measurements' # <<>>
            /\ Last(measurements').rx_time = rx_triggers[i + 1]
            /\ Last(measurements').latency = LatencyOf(i, packet_num)

\* C3: for each TX trigger, in order, the RX trigger chosen is the one of
\* least latency among those unconsumed at that point that are later than
\* it and within max_latency; among equal minima the lowest position wins.
C3_GreedyNearest == [][NearestStep]_vars

\* A single TX trigger met two unconsumed RX triggers of the same, least
\* latency and took the one at the lower position, although a farther
\* eligible one came first in the list.
C3_Witness ==
    /\ Returned
    /\ Len(tx_triggers) = 1
    /\ Len(measurements) = 1
    /\ \E h, i, j \in RxPositions :
          /\ h < i /\ i < j
          /\ rx_triggers[h + 1] > rx_triggers[i + 1]
          /\ rx_triggers[h + 1] - tx_triggers[1] <= max_latency_ms
          /\ rx_triggers[i + 1] = rx_triggers[j + 1]
          /\ used_rx_indices = {i}

StrictlyIncreasingIndex ==
    \A j, k \in 1 .. Len(measurements) :
        j < k => measurements[j].packet_num < measurements[k].packet_num

\* One step of the matcher on the TX trigger at position packet_num: either
\* one measurement with that index, that send_time and latency =
\* receive_time - send_time, or one warning; the warning exactly when no
\* unconsumed RX position is eligible, and then the consumed set is unchanged.
PerSendStep ==
    AtSend =>
        /\ packet_num' = packet_num + 1
        /\ pc' = "match"
        /\ IF Eligible(packet_num, used_rx_indices) = {}
           THEN /\ warnings' = Append(warnings, packet_num)
                /\ measurements' = measurements
                /\ used_rx_indices' = used_rx_indices
           ELSE /\ warnings' = warnings
                /\ Len(measurements') = Len(measurements) + 1
                /\ measurements' = Append(measurements, Last(measurements'))
                /\ Last(measurements').packet_num = packet_num
                /\ Last(measurements').tx_time = tx_triggers[packet_num + 1]
                /\ Last(measurements').latency =
                      Last(measurements').rx_time - tx_triggers[packet_num + 1]

\* The matcher returns only after the last TX trigger.
ReturnStep == (pc = "match" /\ pc' # "match") => packet_num = Len(tx_triggers)

PerSendTotals ==
    /\ StrictlyIncreasingIndex
    /\ Len(measurements) + Len(warnings) = packet_num
    /\ (Returned => packet_num = Len(tx_triggers))
    /\ ((Returned /\ tx_triggers = <<0, 10>> /\ rx_triggers = <<2, 12>>
            /\ max_latency_ms = 100)
          => measurements = <<LatencyMeasurement(0, 0, 2),
                              LatencyMeasurement(1, 10, 12)>>)

\* C6: every TX trigger is processed, in order; position k yields exactly one
\* measurement of index k or exactly one warning, the warning exactly when no
\* unconsumed RX trigger qualifies; indices increase strictly and
\* measurements + warnings = TX triggers once the matcher has returned.
C6_PerSendOutcome ==
    [][PerSendStep /\ ReturnStep]_vars /\ []PerSendTotals

\* A TX trigger without a match was followed by one that was matched.
C6_Witness ==
    /\ Returned
    /\ \E w \in 1 .. Len(warnings) : \E k \in 1 .. Len(measurements) :
          warnings[w] < measurements[k].packet_num

Sorted(s) == \A j, k \in 1 .. Len(s) : j < k => s[j] <= s[k]

MaxOf(S) == CHOOSE x \in S : \A y \in S : x >= y

\* The most pairs any one-to-one pairing of the TX triggers from position k
\* on can make with the RX positions outside used, each pair satisfying the
\* causality and bound constraints.
RECURSIVE MostPairs(_, _)
MostPairs(k, used) ==
    IF k >= Len(tx_triggers) THEN 0
    ELSE MaxOf({MostPairs(k + 1, used)}
               \cup {1 + MostPairs(k + 1, used \cup {i}) : i \in Eligible(k, used)})

\* C10: when both trigger lists are in non-decreasing order the matcher
\* pairs as many TX triggers as any valid one-to-one pairing could.
C10_MaximumWhenSorted ==
    (Returned /\ Sorted(tx_triggers) /\ Sorted(rx_triggers))
        => Len(measurements) = MostPairs(0, {})

\* Sorted lists with as many RX as TX triggers where some, not all, TX
\* triggers were paired, and a later one had to take a farther RX trigger.
C10_Witness ==
    /\ C2_Witness
    /\ Sorted(tx_triggers) /\ Sorted(rx_triggers)
    /\ Len(rx_triggers) >= Len(tx_triggers)
    /\ Len(measurements) < Len(tx_triggers)

\* ------------------------------------------------------------ report builder
RECURSIVE TotalLatency(_)
TotalLatency(k) ==
    IF k = 0 THEN 0 ELSE measurements[k].latency + TotalLatency(k - 1)

AbsDiff(a, b) == IF a >= b THEN a - b ELSE b - a

\* C9: for a non-empty list the report gives count = number of measurements,
\* min and max = least and greatest latency, mean = sum / count (between min
\* and max; printed to the nearest thousandth) and one row per measurement
\* in order; for the empty list it is the "no data" report, with no
\* statistic computed.
C9_ReportStatistics ==
    pc = "reported" =>
        LET report == markdown_table[1]
            n == Len(measurements)
        IN  IF n = 0
            THEN /\ report = NoMeasurements
                 /\ report.avg_latency = None
                 /\ report.rows = <<>>
            ELSE /\ report.total_packets = Some(n)
                 /\ \E k \in 1 .. n : report.min_latency = Some(measurements[k].latency)
                 /\ \E k \in 1 .. n : report.max_latency = Some(measurements[k].latency)
                 /\ \A k \in 1 .. n :
                       /\ report.min_latency[1] <= measurements[k].latency
                       /\ report.max_latency[1] >= measurements[k].latency
                 /\ report.avg_latency[1][2] = n
                 /\ report.avg_latency[1][1] = TotalLatency(n)
                 /\ report.min_latency[1] * n <= report.avg_latency[1][1]
                 /\ report.avg_latency[1][1] <= report.max_latency[1] * n
                 /\ 2 * AbsDiff(report.summary[1] * n, 1000 * TotalLatency(n)) <= n
                 /\ report.summary[2] = 1000 * report.min_latency[1]
                 /\ report.summary[3] = 1000 * report.max_latency[1]
                 /\ Len(report.rows) = n
                 /\ \A k \in 1 .. n :
                       report.rows[k] = <<measurements[k].packet_num,
                                          100 * measurements[k].tx_time,
                                          100 * measurements[k].rx_time,
                                          100 * measurements[k].latency>>

\* A report over several measurements whose latencies differ and whose mean
\* is not a whole number.
C9_Witness ==
    /\ pc = "reported"
    /\ Len(measurements) >= 2
    /\ markdown_table[1].min_latency[1] < markdown_table[1].max_latency[1]
    /\ TotalLatency(Len(measurements)) % Len(measurements) # 0

\* ---------------------------------------------------------------------- main
\* The matcher has not been entered and nothing was reported.
NothingAttempted ==
    /\ packet_num = 0
    /\ measurements = <<>>
    /\ warnings = <<>>
    /\ used_rx_indices = {}
    /\ markdown_table = None
    /\ written = None

\* An empty trigger list is met by the very next step, which ends the run.
EmptyChannelStep ==
    /\ (pc = "check_tx" /\ tx_triggers = <<>>) => (pc' = "exit" /\ error' = ErrNoTx)
    /\ (pc = "check_rx" /\ rx_triggers = <<>>) => (pc' = "exit" /\ error' = ErrNoRx)

EmptyChannelState ==
    /\ (pc # "parse" /\ (tx_triggers = <<>> \/ rx_triggers = <<>>))
          => (pc \in {"check_tx", "check_rx", "exit"} /\ NothingAttempted)
    /\ error = ErrNoTx => (pc = "exit" /\ tx_triggers = <<>>)
    /\ error = ErrNoRx => (pc = "exit" /\ tx_triggers # <<>> /\ rx_triggers = <<>>)
    /\ pc = "exit" => ~ENABLED NextMain

\* C7: if the TX or the RX trigger list is empty after edge detection the
\* run ends in a fatal error at once, before the matcher is called, with no
\* report built or written.
C7_EmptyChannelFatal == [][EmptyChannelStep]_vars /\ []EmptyChannelState

\* The run ended on the missing RX triggers although TX triggers were found.
C7_Witness ==
    /\ pc = "exit"
    /\ error = ErrNoRx
    /\ tx_triggers # <<>>

\* Matching that ends with no measurement is met by the very next step,
\* which ends the run.
NoPairsStep ==
    (pc = "matched" /\ measurements = <<>>) => (pc' = "exit" /\ error' = ErrNoPairs)

ReportGating ==
    /\ error = ErrNoPairs =>
          /\ pc = "exit"
          /\ tx_triggers # <<>> /\ rx_triggers # <<>>
          /\ packet_num = Len(tx_triggers)
          /\ measurements = <<>>
          /\ Len(warnings) = Len(tx_triggers)
    /\ ErrNoPairs \notin {ErrNoTx, ErrNoRx}
    /\ (markdown_table # None \/ written # None) =>
          /\ tx_triggers # <<>> /\ rx_triggers # <<>>
          /\ measurements # <<>>
          /\ markdown_table = Some(generate_markdown_table(measurements))
    /\ error \in {ErrRead, ErrNoTx, ErrNoRx, ErrNoPairs} =>
          (markdown_table = None /\ written = None)
    /\ pc = "exit" => written \in {None, Some(Truncated)}
    /\ ((csv_rows = << <<0, 1, 0>>, <<50, 0, 1>> >> /\ max_latency_ms = 10
            /\ pc \in {"matched", "exit"} /\ error # ErrRead)
          => (tx_triggers = <<0>> /\ rx_triggers = <<50>>
              /\ measurements = <<>> /\ warnings = <<0>>))

\* C8: matching that yields no measurement ends the run in a fatal state of
\* its own, after the matching attempt; a report is built and output only
\* when both trigger lists are non-empty and a measurement exists, never on
\* a fatal failure.
C8_NoValidPairsAndGating == [][NoPairsStep]_vars /\ []ReportGating

\* TX [0], RX [50], max latency 10: the run ended on "no valid pairs" after
\* one warning.
C8_Witness ==
    /\ pc = "exit"
    /\ error = ErrNoPairs
    /\ tx_triggers = <<0>> /\ rx_triggers = <<50>> /\ max_latency_ms = 10
    /\ warnings = <<0>>

=============================================================================
